---- MODULE Spec2Model ----
(***************************************************************************)
(* State-machine model of the YouTube live chat fetcher:                   *)
(*   youtube_chat.py  start_live_chat / stop_live_chat / fetch_chat_once   *)
(*   chat_store.py    init_chat_store / save_comment /                     *)
(*                    get_recent_comments / close_chat_store               *)
(* Threads call start_live_chat concurrently; one more thread calls        *)
(* stop_live_chat.  Text is modelled as a sequence of one-character        *)
(* strings where the code parses it, and as a string where it only copies  *)
(* or concatenates it.  Spec and StoreSpec run the fetcher; RecentSpec     *)
(* runs the users of the store; NormSpec and AmountSpec apply              *)
(* fetch_chat_once and parse_amount_to_int to every input of a bounded     *)
(* set.                                                                    *)
(***************************************************************************)
EXTENDS Integers, Sequences, FiniteSets, TLC

(* ----------------------------- bounds --------------------------------- *)

\* Greatest number of actions in one get_live_chat response.
MaxBatch == 2

\* Number of different events the users of the store save.
MaxEvents == 4

\* Greatest length of an amount text given to parse_amount_to_int.
MaxText == 4

\* Threads that call start_live_chat.
Threads == {"t1", "t2"}
NoThread == "NoThread"

\* Continuation tokens the platform hands out.
Tokens == {"A", "B"}
NoToken == ""

(* ------------------------ program constants --------------------------- *)

\* extract_continuation_data: block.get("timeoutMs", 2000)
DefaultTimeoutMs == 2000
\* start_live_chat: time.sleep(max(timeout_ms, 500) / 1000)
SleepFloorMs == 500
\* start_live_chat: time.sleep(5)
BackoffMs == 5000

(* --------------------------- text helpers ----------------------------- *)

Digits == {"0", "1", "2", "3", "4", "5", "6", "7", "8", "9"}

DigitVal(c) == CHOOSE n \in 0..9 : ToString(n) = c

Max(a, b) == IF a >= b THEN a ELSE b

\* The digits of a decimal numeral without its leading zeros ("0" for zero):
\* the value Python's int() gives, kept as digits so that values beyond the
\* checker's integers stay exact.
RECURSIVE StripZeros(_)
StripZeros(ds) ==
    IF Len(ds) > 1 /\ Head(ds) = "0" THEN StripZeros(Tail(ds)) ELSE ds

RECURSIVE DigitsToNat(_)
DigitsToNat(ds) ==
    IF ds = <<>> THEN 0
    ELSE 10 * DigitsToNat(SubSeq(ds, 1, Len(ds) - 1)) + DigitVal(ds[Len(ds)])

\* a <= b for two numerals of the same length, most significant digit first.
RECURSIVE NumeralLeq(_, _)
NumeralLeq(a, b) ==
    IF a = <<>> THEN TRUE
    ELSE IF DigitVal(Head(a)) < DigitVal(Head(b)) THEN TRUE
    ELSE IF DigitVal(Head(a)) > DigitVal(Head(b)) THEN FALSE
    ELSE NumeralLeq(Tail(a), Tail(b))

\* 2^63 - 1, the greatest value of an SQLite INTEGER.
Int64MaxDigits ==
    <<"9", "2", "2", "3", "3", "7", "2", "0", "3", "6",
      "8", "5", "4", "7", "7", "5", "8", "0", "7">>

\* Whether sqlite3 can bind the (non-negative) integer: beyond 64 bits the
\* binding raises OverflowError, which is no sqlite3.DatabaseError.
FitsSqliteInteger(ds) ==
    \/ Len(ds) < Len(Int64MaxDigits)
    \/ Len(ds) = Len(Int64MaxDigits) /\ NumeralLeq(ds, Int64MaxDigits)

\* An absent amount (Python None).
NoAmount == <<>>

\* A parser that takes every digit of the text.
ParseAllDigits(text) ==
    LET digits == SelectSeq(text, LAMBDA c : c \in Digits)
    IN  IF digits = <<>> THEN NoAmount ELSE StripZeros(digits)

\* parse_amount_to_int: re.search(r"([\d,]+)"), commas removed, int().
parse_amount_to_int(text) ==
    IF text = <<>> THEN NoAmount
    ELSE
      LET inRun(i) == text[i] \in Digits \/ text[i] = ","
          starts == {i \in 1..Len(text) : inRun(i)}
      IN  IF starts = {} THEN NoAmount
          ELSE
            LET s == CHOOSE i \in starts : \A j \in starts : i <= j
                e == CHOOSE i \in s..Len(text) :
                        /\ \A j \in s..i : inRun(j)
                        /\ i = Len(text) \/ ~inRun(i + 1)
                digits == SelectSeq(SubSeq(text, s, e), LAMBDA c : c \in Digits)
            IN  IF digits = <<>> THEN NoAmount ELSE StripZeros(digits)

\* Python's int() of a decimal string: raises ValueError on anything else.
IsNumeral(text) == text # <<>> /\ \A i \in 1..Len(text) : text[i] \in Digits

\* format_datetime: the local time of the instant, to the second.
format_datetime(ts_ms) == ToString(ts_ms \div 1000)

(* ------------------------- raw chat payloads -------------------------- *)

\* Python None where the code gives a string or None.
None == "<None>"

RECURSIVE JoinStrings(_, _)
JoinStrings(strs, sep) ==
    IF strs = <<>> THEN ""
    ELSE IF Len(strs) = 1 THEN strs[1]
    ELSE strs[1] \o sep \o JoinStrings(Tail(strs), sep)

\* runs_to_plain: "".join(r.get("text", "") for r in runs or [])
runs_to_plain(runs) == JoinStrings(runs, "")

\* A thumbnail object, with or without its "url" key.
Thumb(u) == [has_url |-> TRUE, url |-> u]
ThumbNoUrl == [has_url |-> FALSE, url |-> ""]

\* One run of message.runs: a text run, an emoji run, or anything else.
TextRun(s) ==
    [kind |-> "text", text |-> s, thumbnails |-> <<>>, shortcuts |-> <<>>,
     emojiId |-> ""]
EmojiRun(thumbs, shortcuts, emojiId) ==
    [kind |-> "emoji", text |-> "", thumbnails |-> thumbs,
     shortcuts |-> shortcuts, emojiId |-> emojiId]

\* The six renderer keys fetch_chat_once knows, in the order it tests them.
RendererKinds ==
    [liveChatTextMessageRenderer |-> "text",
     liveChatPaidMessageRenderer |-> "paid",
     liveChatPaidStickerRenderer |-> "sticker",
     liveChatMembershipItemRenderer |-> "membership",
     liveChatSponsorshipsGiftPurchaseAnnouncementRenderer |-> "gift_purchase",
     liveChatGiftRedemptionAnnouncementRenderer |-> "gift_redeem"]

\* A renderer object with every field absent: absent strings are "", absent
\* lists are <<>>, an absent colour is <<>> and a present one is <<int>>.
\* timestampUsec absent is read as "0" (renderer.get("timestampUsec", "0")).
\* giftHeader is header.liveChatSponsorshipsHeaderRenderer, its authorName
\* the characters of simpleText (or of the joined runs); header and subtext
\* are the text runs of a gift redemption.
EmptyRenderer ==
    [id |-> "", messageId |-> "", trackingParams |-> "",
     authorName |-> [simpleText |-> "", runs |-> <<>>],
     authorPhoto |-> <<>>,
     timestampUsec |-> <<"0">>,
     message |-> <<>>,
     purchaseAmountText |-> <<>>,
     headerBackgroundColor |-> <<>>, headerTextColor |-> <<>>,
     bodyBackgroundColor |-> <<>>, bodyTextColor |-> <<>>,
     backgroundColor |-> <<>>, moneyChipTextColor |-> <<>>,
     authorNameTextColor |-> <<>>,
     sticker |-> [thumbnails |-> <<>>, label |-> ""],
     headerPrimaryText |-> <<>>, headerSubtext |-> <<>>,
     giftHeader |-> [authorName |-> <<>>, authorPhoto |-> <<>>],
     header |-> <<>>, subtext |-> <<>>]

\* One element of liveChatContinuation.actions: key is the renderer key of
\* addChatItemAction.item ("" when the action has no such item).
Action(key, renderer) == [key |-> key, renderer |-> renderer]

(* -------------------------- record normalizer ------------------------- *)

\* thumbs[-1]["url"] if thumbs else "": KeyError when the last thumbnail
\* has no url.
LastUrlRaises(thumbs) == thumbs # <<>> /\ ~thumbs[Len(thumbs)].has_url
LastUrl(thumbs) == IF thumbs = <<>> THEN "" ELSE thumbs[Len(thumbs)].url

\* thumbs[-1].get("url"): None when the last thumbnail has no url.
LastUrlOrNone(thumbs) ==
    IF thumbs[Len(thumbs)].has_url THEN thumbs[Len(thumbs)].url ELSE None

TextPart(s) == [type |-> "text", text |-> s, url |-> "", alt |-> ""]
ImagePart(type, url, alt) == [type |-> type, text |-> "", url |-> url, alt |-> alt]

RECURSIVE parse_message_parts(_)
parse_message_parts(runs) ==
    IF runs = <<>> THEN <<>>
    ELSE
      LET r == Head(runs)
          rest == parse_message_parts(Tail(runs))
      IN  IF r.kind = "text" THEN <<TextPart(r.text)>> \o rest
          ELSE IF r.kind = "emoji" THEN
            <<ImagePart("emoji", LastUrl(r.thumbnails),
                        IF r.shortcuts # <<>> THEN r.shortcuts[1] ELSE r.emojiId)>>
            \o rest
          ELSE rest

MessagePartsRaise(runs) ==
    \E i \in 1..Len(runs) :
        runs[i].kind = "emoji" /\ LastUrlRaises(runs[i].thumbnails)

\* A sticker event without its sticker part.
NoStickerParts(renderer) == <<>>

parse_sticker_parts(renderer) ==
    <<ImagePart("sticker", LastUrl(renderer.sticker.thumbnails),
                renderer.sticker.label)>>

\* "".join(p["text"] for p in parts if p["type"] == "text")
RECURSIVE PlainText(_)
PlainText(parts) ==
    IF parts = <<>> THEN ""
    ELSE (IF Head(parts).type = "text" THEN Head(parts).text ELSE "")
         \o PlainText(Tail(parts))

\* " ".join(filter(None, strs)) or placeholder
JoinNonEmpty(strs, placeholder) ==
    LET joined == JoinStrings(SelectSeq(strs, LAMBDA s : s # ""), " ")
    IN  IF joined = "" THEN placeholder ELSE joined

HexDigits ==
    <<"0", "1", "2", "3", "4", "5", "6", "7",
      "8", "9", "A", "B", "C", "D", "E", "F">>

RECURSIVE HexOf(_, _)
HexOf(n, width) ==
    IF width = 0 THEN ""
    ELSE HexOf(n \div 16, width - 1) \o HexDigits[(n % 16) + 1]

\* to_hex: f"#{value & 0xFFFFFF:06X}", None for None.
to_hex(value) ==
    IF value = <<>> THEN None ELSE "#" \o HexOf(value[1] % 16777216, 6)

Absent == "<absent>"

\* A colors object for every kind, with no colour in it.
ColorsWithoutColour ==
    [present |-> TRUE, header_bg |-> None, header_text |-> None,
     body_bg |-> None, body_text |-> None]

\* super_colors = None, which json.dumps stores as null.
NoColors ==
    [present |-> FALSE, header_bg |-> Absent, header_text |-> Absent,
     body_bg |-> Absent, body_text |-> Absent]

\* raw_author.lstrip("@")
RECURSIVE LStripAt(_)
LStripAt(chars) ==
    IF chars # <<>> /\ Head(chars) = "@" THEN LStripAt(Tail(chars)) ELSE chars

extract_author_photo(renderer, msg_type) ==
    IF renderer.authorPhoto # <<>> THEN LastUrlOrNone(renderer.authorPhoto)
    ELSE IF msg_type = "gift_purchase" /\ renderer.giftHeader.authorPhoto # <<>>
         THEN LastUrlOrNone(renderer.giftHeader.authorPhoto)
    ELSE None

CharsToString(chars) == JoinStrings(chars, "")

\* msg_type of an item: None when it carries none of the six renderer keys.
msg_type_of(key) ==
    IF key \in DOMAIN RendererKinds THEN RendererKinds[key] ELSE None

\* Whether normalizing a recognized item raises: int() of a non-numeric
\* timestampUsec, or thumbs[-1]["url"] of a thumbnail without url.
ItemRaises(renderer, msg_type) ==
    \/ ~IsNumeral(renderer.timestampUsec)
    \/ /\ msg_type \in {"text", "paid", "membership", "gift_redeem"}
       /\ MessagePartsRaise(renderer.message)
    \/ /\ msg_type = "sticker"
       /\ LastUrlRaises(renderer.sticker.thumbnails)

\* An author that is kept as the platform gave it, empty or not.
AuthorAsGiven(author) == author

\* if not author: author = "Unknown"
AuthorOrUnknown(author) == IF author # "" THEN author ELSE "Unknown"

\* An id made of timestamp, author and text alone.
SyntheticIdNoPosition(timestamp_ms, author, text_plain, idx) ==
    ToString(timestamp_ms) \o "_" \o author \o "_" \o text_plain

\* f"{timestamp_ms}_{author}_{text_plain}_{idx}"
SyntheticId(timestamp_ms, author, text_plain, idx) ==
    ToString(timestamp_ms) \o "_" \o author \o "_" \o text_plain
        \o "_" \o ToString(idx)

\* The chat item fetch_chat_once appends for a recognized item at position
\* idx (0-based) of the response.
ChatItem(renderer, msg_type, idx) ==
    LET author0 ==
            IF renderer.authorName.simpleText # ""
            THEN renderer.authorName.simpleText
            ELSE runs_to_plain(renderer.authorName.runs)
        timestamp_ms == DigitsToNat(renderer.timestampUsec) \div 1000
        msg_parts == parse_message_parts(renderer.message)
        display_name == CharsToString(LStripAt(renderer.giftHeader.authorName))
        gift_author ==
            IF display_name # "" THEN display_name
            ELSE IF author0 # "" THEN author0 ELSE "Unknown"
        gift_message ==
            IF display_name # "" THEN gift_author \o " sent gift memberships"
            ELSE "A viewer sent gift memberships"
        redeem_text ==
            JoinNonEmpty(<<runs_to_plain(renderer.header),
                           runs_to_plain(renderer.subtext)>>, "[GIFT REDEEM]")
        author ==
            IF msg_type = "gift_purchase" THEN gift_author
            ELSE AuthorOrUnknown(author0)
        parts ==
            CASE msg_type \in {"text", "paid", "membership"} -> msg_parts
              [] msg_type = "sticker" -> parse_sticker_parts(renderer)
              [] msg_type = "gift_purchase" -> <<TextPart(gift_message)>>
              [] msg_type = "gift_redeem" ->
                    IF renderer.message # <<>> THEN msg_parts
                    ELSE <<TextPart(redeem_text)>>
        text_plain ==
            CASE msg_type \in {"text", "paid"} -> PlainText(msg_parts)
              [] msg_type = "sticker" -> "[STICKER]"
              [] msg_type = "membership" ->
                    JoinNonEmpty(<<runs_to_plain(renderer.headerPrimaryText),
                                   runs_to_plain(renderer.headerSubtext),
                                   PlainText(msg_parts)>>, "[MEMBERSHIP]")
              [] msg_type = "gift_purchase" -> gift_message
              [] msg_type = "gift_redeem" -> redeem_text
        paid == msg_type \in {"paid", "sticker"}
        sticker_text_raw ==
            IF renderer.moneyChipTextColor \notin {<<>>, <<0>>}
            THEN renderer.moneyChipTextColor
            ELSE renderer.authorNameTextColor
        super_colors ==
            CASE msg_type = "paid" ->
                    [present |-> TRUE,
                     header_bg |-> to_hex(renderer.headerBackgroundColor),
                     header_text |-> to_hex(renderer.headerTextColor),
                     body_bg |-> to_hex(renderer.bodyBackgroundColor),
                     body_text |-> to_hex(renderer.bodyTextColor)]
              [] msg_type = "sticker" ->
                    [present |-> TRUE, header_bg |-> Absent,
                     header_text |-> Absent,
                     body_bg |-> to_hex(renderer.backgroundColor),
                     body_text |-> to_hex(sticker_text_raw)]
              [] OTHER -> NoColors
        raw_id ==
            IF renderer.id # "" THEN renderer.id
            ELSE IF renderer.messageId # "" THEN renderer.messageId
            ELSE renderer.trackingParams
        msg_id ==
            IF raw_id # "" THEN raw_id
            ELSE SyntheticId(timestamp_ms, author, text_plain, idx)
    IN  [id |-> msg_id,
         colors |-> super_colors,
         author |-> author,
         icon |-> extract_author_photo(renderer, msg_type),
         text |-> text_plain,
         parts |-> parts,
         timestamp_ms |-> timestamp_ms,
         timestamp |-> format_datetime(timestamp_ms),
         kind |-> msg_type,
         amount |-> IF paid THEN parse_amount_to_int(renderer.purchaseAmountText)
                    ELSE NoAmount,
         amount_text |-> IF paid THEN CharsToString(renderer.purchaseAmountText)
                         ELSE "",
         video_id |-> None]

\* An action without item, or with an item of no known renderer, is
\* skipped, and so is an item whose renderer is an empty object
\* (if not renderer or not msg_type: continue).
ItemSkipped(action) ==
    \/ msg_type_of(action.key) = None
    \/ action.renderer = EmptyRenderer

\* The loop over enumerate(actions): the chat items of actions[from..], the
\* action at 1-based position i having idx = i - 1.
RECURSIVE NormalizeFrom(_, _)
NormalizeFrom(actions, i) ==
    IF i > Len(actions) THEN <<>>
    ELSE IF ItemSkipped(actions[i]) THEN NormalizeFrom(actions, i + 1)
    ELSE <<ChatItem(actions[i].renderer, msg_type_of(actions[i].key), i - 1)>>
         \o NormalizeFrom(actions, i + 1)

AnyItemRaises(actions) ==
    \E i \in 1..Len(actions) :
        /\ ~ItemSkipped(actions[i])
        /\ ItemRaises(actions[i].renderer, msg_type_of(actions[i].key))

(* ------------------------- continuation tracker ----------------------- *)

ContinuationKeys == {"timedContinuationData", "invalidationContinuationData"}

\* continuations[0]: the wrapper key it carries, the token and the timeoutMs
\* inside (<<>> when absent, <<ms>> when present).
ContBlock(key, token, timeoutMs) ==
    [key |-> key, continuation |-> token, timeoutMs |-> timeoutMs]

ContinuationRaises(cont0) == cont0.key \notin ContinuationKeys

\* A tracker that always waits the default delay.
ExtractDefaultDelay(cont0) ==
    [next_cont |-> cont0.continuation, timeout_ms |-> DefaultTimeoutMs]

\* extract_continuation_data: (block["continuation"],
\*                             int(block.get("timeoutMs", 2000)))
extract_continuation_data(cont0) ==
    [next_cont |-> cont0.continuation,
     timeout_ms |-> IF cont0.timeoutMs = <<>> THEN DefaultTimeoutMs
                    ELSE cont0.timeoutMs[1]]

(* ----------------------------- transport ------------------------------ *)

\* What one POST to get_live_chat gives: status "ok" (a JSON body) or a
\* failure post_live_chat raises on; has_contents says whether the body
\* holds continuationContents.liveChatContinuation.
Response(status, has_contents, actions, continuations) ==
    [status |-> status, has_contents |-> has_contents, actions |-> actions,
     continuations |-> continuations]

NoResponse == Response("none", FALSE, <<>>, <<>>)

\* A normalizer that raises on an item none of whose keys it knows.
RaisesOnUnknown(resp) ==
    \/ resp.status # "ok"
    \/ ~resp.has_contents
    \/ \E i \in 1..Len(resp.actions) : msg_type_of(resp.actions[i].key) = None
    \/ AnyItemRaises(resp.actions)
    \/ resp.continuations = <<>>
    \/ ContinuationRaises(resp.continuations[1])

FetchRaises(resp) ==
    \/ resp.status # "ok"
    \/ ~resp.has_contents
    \/ AnyItemRaises(resp.actions)
    \/ resp.continuations = <<>>
    \/ ContinuationRaises(resp.continuations[1])

\* fetch_chat_once on a response it does not raise on.
fetch_chat_once(resp) ==
    [chat_items |-> NormalizeFrom(resp.actions, 1),
     next_cont |-> extract_continuation_data(resp.continuations[1]).next_cont,
     timeout_ms |-> extract_continuation_data(resp.continuations[1]).timeout_ms]

(* ------------------------------ chat store ---------------------------- *)

\* json.dumps / json.loads of a value made of lists, dicts and strings.
json_dumps(value) == <<"json", value>>
json_loads(text) == text[2]

\* The row save_comment binds to _INSERT_SQL for a message.
RowOf(msg) ==
    [id |-> msg.id, video_id |-> msg.video_id,
     timestamp_ms |-> msg.timestamp_ms, timestamp |-> msg.timestamp,
     author |-> msg.author, text |-> msg.text, kind |-> msg.kind,
     amount |-> msg.amount, amount_text |-> msg.amount_text,
     icon |-> msg.icon, parts_json |-> json_dumps(msg.parts),
     colors_json |-> json_dumps(msg.colors)]

HasId(rows, id) == \E i \in 1..Len(rows) : rows[i].id = id

\* INSERT OR REPLACE: the row of the same id is deleted, the new one added.
InsertOrReplace(rows, row) ==
    Append(SelectSeq(rows, LAMBDA r : r.id # row.id), row)

\* INSERT into a table without the PRIMARY KEY on id.
InsertAlways(rows, row) == Append(rows, row)

\* _INSERT_SQL, INSERT OR IGNORE on the PRIMARY KEY id: rows in rowid order.
InsertOrIgnore(rows, row) ==
    IF HasId(rows, row.id) THEN rows ELSE Append(rows, row)

\* What the database does with one execute + commit: "ok", or a
\* sqlite3.DatabaseError raised by execute (nothing inserted) or by commit
\* (the insert stays in the connection's open transaction, where the reads
\* of this connection see it).
SqliteOutcomes == {"ok", "execute_error", "commit_error"}

\* The exception _db.execute / _db.commit raise for a row: OverflowError
\* when the amount does not fit an SQLite INTEGER (raised while binding,
\* whatever the database does), else the database's own outcome.
SqliteException(row, sqlite) ==
    IF ~FitsSqliteInteger(row.amount) THEN "OverflowError"
    ELSE IF sqlite = "ok" THEN "none"
    ELSE "DatabaseError"

\* save_comment: except sqlite3.DatabaseError
CaughtBySaveComment(exc) == exc = "DatabaseError"

\* save_comment(msg) on an open store: the rows afterwards, whether an
\* exception leaves the call, and what happened to the write.
save_comment(rows, msg, sqlite) ==
    LET row == RowOf(msg)
        exc == SqliteException(row, sqlite)
        executed == exc = "none" \/ (exc = "DatabaseError" /\ sqlite = "commit_error")
    IN  [rows |-> IF executed THEN InsertOrIgnore(rows, row) ELSE rows,
         raised |-> exc # "none" /\ ~CaughtBySaveComment(exc),
         outcome |-> IF exc = "OverflowError" THEN "raised"
                     ELSE IF exc = "DatabaseError" THEN "fault"
                     ELSE IF HasId(rows, row.id) THEN "ignored"
                     ELSE "inserted"]

\* get_recent_comments: the default of its limit, and the greatest limit it
\* accepts.
DEFAULT_LIMIT == 50
MaxLimit == 500

Min(a, b) == IF a <= b THEN a ELSE b

\* A SELECT that puts the latest row first whatever its timestamp.
BeforeByRowid(rows, i, j) == i > j

\* ORDER BY timestamp_ms DESC, rowid DESC: whether the row of rowid i comes
\* before the row of rowid j.
Before(rows, i, j) ==
    \/ rows[i].timestamp_ms > rows[j].timestamp_ms
    \/ rows[i].timestamp_ms = rows[j].timestamp_ms /\ BeforeByRowid(rows, i, j)

\* SELECT ... ORDER BY timestamp_ms DESC, rowid DESC LIMIT lim
SelectRecent(rows, lim) ==
    LET rank(i) == 1 + Cardinality({j \in 1..Len(rows) : Before(rows, j, i)})
    IN  [k \in 1..Min(lim, Len(rows)) |->
            rows[CHOOSE i \in 1..Len(rows) : rank(i) = k]]

\* reversed(rows)
Reversed(seq) == [k \in 1..Len(seq) |-> seq[Len(seq) + 1 - k]]

\* The dict get_recent_comments builds of a row.
EventOfRow(row) ==
    [id |-> row.id, video_id |-> row.video_id,
     timestamp_ms |-> row.timestamp_ms, timestamp |-> row.timestamp,
     author |-> row.author, text |-> row.text, kind |-> row.kind,
     amount |-> row.amount, amount_text |-> row.amount_text,
     icon |-> row.icon, parts |-> json_loads(row.parts_json),
     colors |-> json_loads(row.colors_json)]

\* get_recent_comments(limit): [] without a store and on a
\* sqlite3.DatabaseError, else the rows of the SELECT, reversed.
get_recent_comments(db, rows, limit, sqlite) ==
    LET lim == IF 1 <= limit /\ limit <= MaxLimit THEN limit ELSE DEFAULT_LIMIT
        selected == SelectRecent(rows, lim)
    IN  IF db = "None" \/ sqlite # "ok" THEN <<>>
        ELSE [k \in 1..Len(selected) |-> EventOfRow(Reversed(selected)[k])]

(* ------------------------- platform behaviour ------------------------- *)

TextKey == "liveChatTextMessageRenderer"
PaidKey == "liveChatPaidMessageRenderer"

\* A text message with platform id m1.
ItemX ==
    Action(TextKey,
           [EmptyRenderer EXCEPT !.id = "m1", !.authorName.simpleText = "ann",
                                 !.timestampUsec = <<"1", "5", "0", "0">>,
                                 !.message = <<TextRun("x")>>])

\* A paid message that carries the same platform id m1 and other content.
ItemY ==
    Action(PaidKey,
           [EmptyRenderer EXCEPT !.id = "m1", !.authorName.simpleText = "bob",
                                 !.timestampUsec = <<"2", "9", "9", "9">>,
                                 !.message = <<TextRun("y")>>,
                                 !.purchaseAmountText =
                                     <<"$", "1", ",", "2", "3", "4">>,
                                 !.bodyBackgroundColor = <<-5588020>>])

\* A paid message whose amount is 2^63, one more than an SQLite INTEGER holds.
ItemHuge ==
    Action(PaidKey,
           [EmptyRenderer EXCEPT !.id = "m2", !.authorName.simpleText = "bob",
                                 !.timestampUsec = <<"3", "0", "0", "0">>,
                                 !.purchaseAmountText =
                                     <<"$", "9", "2", "2", "3", "3", "7", "2",
                                       "0", "3", "6", "8", "5", "4", "7", "7",
                                       "5", "8", "0", "8">>])

\* A text message whose timestampUsec is not a number.
ItemBadTimestamp ==
    Action(TextKey,
           [EmptyRenderer EXCEPT !.id = "m3",
                                 !.timestampUsec = <<"a", "b", "c">>,
                                 !.message = <<TextRun("x")>>])

\* A text message with platform id m4.
ItemZ ==
    Action(TextKey,
           [EmptyRenderer EXCEPT !.id = "m4", !.authorName.simpleText = "ann",
                                 !.timestampUsec = <<"1", "5", "0", "0">>,
                                 !.message = <<TextRun("z")>>])

\* The items the platform sends in Spec, and those it sends in StoreSpec.
RawItems == {ItemX, ItemHuge, ItemBadTimestamp}
StoreItems == {ItemX, ItemY, ItemZ, ItemHuge}

RECURSIVE SeqsUpTo(_, _)
SeqsUpTo(S, n) ==
    IF n = 0 THEN {<<>>}
    ELSE LET shorter == SeqsUpTo(S, n - 1)
         IN  shorter \cup {Append(q, x) : q \in shorter, x \in S}


ContBlocks ==
    {ContBlock("timedContinuationData", "A", <<>>),
     ContBlock("invalidationContinuationData", "B", <<100>>),
     ContBlock("reloadContinuationData", "A", <<>>)}

\* Every answer of the platform to one poll: a transport failure, a
\* non-success status, a body that is no JSON, a body without
\* continuationContents.liveChatContinuation, a body without continuations,
\* and the well-formed bodies with up to MaxBatch of the items.
ResponsesOf(items) ==
    {Response(st, FALSE, <<>>, <<>>) :
        st \in {"transport_error", "http_error", "bad_json", "ok"}}
    \cup {Response("ok", TRUE, <<ItemX>>, <<>>)}
    \cup {Response("ok", TRUE, b, <<c>>) :
            b \in SeqsUpTo(items, MaxBatch), c \in ContBlocks}

Responses == ResponsesOf(RawItems)
StoreResponses == ResponsesOf(StoreItems)

\* The events a user of the store saves: event i is the chat item of a
\* text message with id "e<i>" sent at second 3, 2, 1, 3, 2, ... so that
\* ids, timestamps and the order of saving are independent and timestamps
\* repeat.
StoredSecond(i) == ((2 * i) % 3) + 1

StoredEvent(i) ==
    [ChatItem([EmptyRenderer EXCEPT
                 !.id = "e" \o ToString(i),
                 !.authorName.simpleText = "ann",
                 !.timestampUsec = <<ToString(StoredSecond(i)), "0", "0", "0",
                                     "0", "0", "0">>,
                 !.message = <<TextRun("x")>>], "text", 0)
        EXCEPT !.video_id = "v1"]

StoredEvents == {StoredEvent(i) : i \in 1..MaxEvents}

\* The limits get_recent_comments is called with: in and out of 1..500.
Limits == {0, 1, 2, 3, MaxLimit, MaxLimit + 1}

StickerKey == "liveChatPaidStickerRenderer"
MembershipKey == "liveChatMembershipItemRenderer"
GiftPurchaseKey == "liveChatSponsorshipsGiftPurchaseAnnouncementRenderer"
GiftRedeemKey == "liveChatGiftRedemptionAnnouncementRenderer"

\* Items without a platform id (no id, messageId or trackingParams).
\* A text message of author "a" with a text run and an emoji run.
NormText ==
    Action(TextKey,
           [EmptyRenderer EXCEPT
              !.authorName.simpleText = "a",
              !.message = <<TextRun("x_1"),
                            EmojiRun(<<Thumb("u1"), Thumb("u2")>>, <<":s:">>, "e1")>>])

\* A text message that has the timestamp, author_text of NormText with the
\* underscore elsewhere: author "a_x", text "1".
NormTextShifted ==
    Action(TextKey,
           [EmptyRenderer EXCEPT !.authorName.simpleText = "a_x",
                                 !.message = <<TextRun("1")>>])

\* A text message without author, whose text ends like a position.
NormTextAnonymous ==
    Action(TextKey, [EmptyRenderer EXCEPT !.message = <<TextRun("x_0")>>])

\* A paid message with its author in runs, colours and an amount.
NormPaid ==
    Action(PaidKey,
           [EmptyRenderer EXCEPT
              !.authorName.runs = <<"b", "ob">>,
              !.timestampUsec = <<"2", "0", "0", "0">>,
              !.message = <<TextRun("y")>>,
              !.purchaseAmountText = <<"$", "5", ".", "0", "0">>,
              !.headerBackgroundColor = <<18737590>>,
              !.bodyTextColor = <<-1>>])

\* A sticker without author.
NormSticker ==
    Action(StickerKey,
           [EmptyRenderer EXCEPT
              !.trackingParams = "tp",
              !.sticker = [thumbnails |-> <<Thumb("s1")>>, label |-> "cat"],
              !.purchaseAmountText = <<"1", ",", "0", "0", "0">>,
              !.moneyChipTextColor = <<0>>,
              !.authorNameTextColor = <<255>>])

\* A sticker whose thumbnail has no url.
NormStickerNoUrl ==
    Action(StickerKey,
           [EmptyRenderer EXCEPT
              !.sticker = [thumbnails |-> <<ThumbNoUrl>>, label |-> ""]])

\* A membership item with header only, and one with nothing but its id.
NormMembership ==
    Action(MembershipKey,
           [EmptyRenderer EXCEPT !.authorName.simpleText = "a",
                                 !.headerSubtext = <<"New ", "member">>])
NormMembershipBare ==
    Action(MembershipKey, [EmptyRenderer EXCEPT !.messageId = "mm"])

\* A gift purchase whose header names "@bob", one whose header names only
\* "@", and one without any author.
NormGiftPurchase ==
    Action(GiftPurchaseKey,
           [EmptyRenderer EXCEPT
              !.giftHeader = [authorName |-> <<"@", "b", "o", "b">>,
                              authorPhoto |-> <<Thumb("p1")>>]])
NormGiftPurchaseAt ==
    Action(GiftPurchaseKey,
           [EmptyRenderer EXCEPT
              !.authorName.simpleText = "a",
              !.giftHeader = [authorName |-> <<"@">>, authorPhoto |-> <<>>]])
NormGiftPurchaseAnonymous ==
    Action(GiftPurchaseKey,
           [EmptyRenderer EXCEPT !.timestampUsec = <<"1", "0", "0", "0">>])

\* A gift redemption with a message, and one with header text only.
NormGiftRedeem ==
    Action(GiftRedeemKey,
           [EmptyRenderer EXCEPT
              !.authorName.simpleText = "a",
              !.message = <<TextRun("thanks"), EmojiRun(<<>>, <<>>, "e2")>>])
NormGiftRedeemBare ==
    Action(GiftRedeemKey, [EmptyRenderer EXCEPT !.header = <<"was gifted">>])

\* An item of a renderer fetch_chat_once does not know, an action without
\* addChatItemAction.item, and a known key with an empty renderer.
NormUnknown ==
    Action("liveChatViewerEngagementMessageRenderer",
           [EmptyRenderer EXCEPT !.id = "u1", !.message = <<TextRun("hi")>>])
NormNoItem == Action("", EmptyRenderer)
NormEmptyRenderer == Action(TextKey, EmptyRenderer)

NormItems ==
    {NormText, NormTextShifted, NormTextAnonymous, NormPaid, NormSticker,
     NormStickerNoUrl, NormMembership, NormMembershipBare, NormGiftPurchase,
     NormGiftPurchaseAt, NormGiftPurchaseAnonymous, NormGiftRedeem,
     NormGiftRedeemBare, NormUnknown, NormNoItem, NormEmptyRenderer}

\* The well-formed envelopes with up to MaxBatch of NormItems.
NormResponses ==
    {Response("ok", TRUE, b, <<c>>) :
        b \in SeqsUpTo(NormItems, MaxBatch), c \in ContBlocks}

\* The amount texts: every text of up to MaxText characters of a digit
\* zero, two other digits, the comma and a currency sign, and the text
\* "$1,234".
AmountChars == {"0", "1", "2", ",", "$"}
AmountTexts ==
    SeqsUpTo(AmountChars, MaxText) \cup {<<"$", "1", ",", "2", "3", "4">>}

VideoIds == {"v1"}

\* How bootstrap goes: init_chat_store, resolve_video_id, get_watch_html,
\* extract_options_from_html, switch_to_all_chat_continuation.
BootstrapFailures ==
    {"store_error", "resolve_error", "watch_error", "no_api_key",
     "no_client_version", "no_continuation", "switch_error"}
BootstrapOutcomes == BootstrapFailures \cup {"unresolved", "ok"}

(* -------------------------------- state ------------------------------- *)

VARIABLES
    _running_lock,  \* the thread inside "with _running_lock", or NoThread
    _is_running,    \* youtube_chat._is_running
    _stop_event,    \* whether youtube_chat._stop_event is set
    _db,            \* chat_store._db: "None" or "open"
    comments,       \* the rows of table comments, in rowid order
    pc,             \* where each thread is in start_live_chat
    video_id,       \* start_live_chat's local video_id, per thread
    continuation,   \* start_live_chat's local continuation, per thread
    chat_items,     \* the chat_items of the current iteration, per thread
    msg_idx,        \* position of the for loop in chat_items (1-based)
    timeout_ms,     \* the timeout_ms of the current iteration
    ending,         \* how the run leaves the try block
    stop_pc,        \* where the stopping thread is in stop_live_chat
    \* history, read by the properties only
    iter_cont,      \* the continuation held when the iteration began
    response,       \* the response fetched in the iteration
    iter_error,     \* "fetch" / "save": where the iteration raised
    last_save,      \* the latest save_comment call of the iteration
    fault_seen,     \* whether some write met a sqlite3.DatabaseError
    completed_ids,  \* ids returned in iterations that ended without error
    last_return,    \* how the latest start_live_chat call ended, while no
                    \* later call has taken the guard
    call            \* the latest call a user of the modules made of one of
                    \* their functions: its name, argument and result

locals == <<video_id, continuation, chat_items, msg_idx, timeout_ms, ending>>
history ==
    <<iter_cont, response, iter_error, last_save, fault_seen, completed_ids,
      last_return>>
globals == <<_running_lock, _is_running, _stop_event, _db, comments>>
vars == <<globals, pc, locals, stop_pc, history, call>>

NoSave == [idx |-> 0, outcome |-> "none"]

\* No function has been called.
NoCall == [op |-> "none", arg |-> <<>>, result |-> <<>>]

\* The positions of a run between bootstrap and Stopped.
PollingPcs == {"while", "fetch", "save", "sleep", "backoff"}
ActivePcs == {"clear", "bootstrap", "finally"} \cup PollingPcs

InitProgram ==
    /\ _running_lock = NoThread
    /\ _is_running = FALSE
    /\ _stop_event = FALSE
    /\ _db = "None"
    /\ comments = <<>>
    /\ pc = [t \in Threads |-> "idle"]
    /\ video_id = [t \in Threads |-> None]
    /\ continuation = [t \in Threads |-> NoToken]
    /\ chat_items = [t \in Threads |-> <<>>]
    /\ msg_idx = [t \in Threads |-> 0]
    /\ timeout_ms = [t \in Threads |-> 0]
    /\ ending = [t \in Threads |-> "none"]
    /\ stop_pc = "idle"
    /\ iter_cont = [t \in Threads |-> NoToken]
    /\ response = [t \in Threads |-> NoResponse]
    /\ iter_error = [t \in Threads |-> "none"]
    /\ last_save = [t \in Threads |-> NoSave]
    /\ fault_seen = FALSE
    /\ completed_ids = {}
    /\ last_return = "none"

Init == InitProgram /\ call = NoCall

(* --------------------------- start_live_chat -------------------------- *)

\* A rejected start that passes through the finally clause on its way out.
StartRejectedResets(t) ==
    /\ pc[t] = "idle"
    /\ _running_lock = NoThread
    /\ _is_running
    /\ _is_running' = FALSE
    /\ last_return' = "rejected"
    /\ UNCHANGED <<call, _running_lock, _stop_event, _db, comments, pc,
                   locals, stop_pc, iter_cont, response, iter_error,
                   last_save, fault_seen, completed_ids>>

\* with _running_lock: if _is_running: print(...); return
StartRejected(t) ==
    /\ pc[t] = "idle"
    /\ _running_lock = NoThread
    /\ _is_running
    /\ last_return' = "rejected"
    /\ UNCHANGED <<call, globals, pc, locals, stop_pc, iter_cont, response,
                   iter_error, last_save, fault_seen, completed_ids>>

\* A start that takes the guard whether or not a run is active.
StartUnguarded(t) ==
    /\ pc[t] = "idle"
    /\ _running_lock = NoThread
    /\ _running_lock' = t
    /\ _is_running' = TRUE
    /\ pc' = [pc EXCEPT ![t] = "clear"]
    /\ last_return' = "none"
    /\ UNCHANGED <<call, _stop_event, _db, comments, locals, stop_pc, iter_cont,
                   response, iter_error, last_save, fault_seen, completed_ids>>

\* with _running_lock: (not _is_running) _is_running = True
StartAccepted(t) ==
    /\ pc[t] = "idle"
    /\ _running_lock = NoThread
    /\ ~_is_running
    /\ _running_lock' = t
    /\ _is_running' = TRUE
    /\ pc' = [pc EXCEPT ![t] = "clear"]
    /\ last_return' = "none"
    /\ UNCHANGED <<call, _stop_event, _db, comments, locals, stop_pc, iter_cont,
                   response, iter_error, last_save, fault_seen, completed_ids>>

\* _stop_event.clear(), and the end of the with block
ClearStop(t) ==
    /\ pc[t] = "clear"
    /\ _stop_event' = FALSE
    /\ _running_lock' = NoThread
    /\ pc' = [pc EXCEPT ![t] = "bootstrap"]
    /\ UNCHANGED <<call, _is_running, _db, comments, locals, stop_pc, history>>

\* A bootstrap that starts over when it has failed.
BootstrapRetried(t) ==
    /\ pc[t] = "bootstrap"
    /\ pc' = [pc EXCEPT ![t] = "clear"]
    /\ _running_lock' = t
    /\ UNCHANGED <<call, _is_running, _stop_event, _db, comments, locals,
                   stop_pc, history>>

\* The try block up to the loop: init_chat_store, resolve_video_id,
\* get_watch_html, extract_options_from_html,
\* switch_to_all_chat_continuation.  An unresolved video id returns, a
\* failure raises; both reach the finally clause.
Bootstrap(t) ==
    /\ pc[t] = "bootstrap"
    /\ \E outcome \in BootstrapOutcomes, v \in VideoIds, token \in Tokens :
         /\ _db' = IF outcome = "store_error" THEN _db ELSE "open"
         /\ IF outcome = "ok"
            THEN /\ video_id' = [video_id EXCEPT ![t] = v]
                 /\ continuation' = [continuation EXCEPT ![t] = token]
                 /\ pc' = [pc EXCEPT ![t] = "while"]
                 /\ UNCHANGED ending
            ELSE /\ ending' = [ending EXCEPT ![t] =
                        IF outcome = "unresolved" THEN "unresolved"
                        ELSE "exception"]
                 /\ pc' = [pc EXCEPT ![t] = "finally"]
                 /\ UNCHANGED <<video_id, continuation>>
    /\ UNCHANGED <<call, _running_lock, _is_running, _stop_event, comments,
                   chat_items, msg_idx, timeout_ms, stop_pc, history>>

\* while not _stop_event.is_set():
LoopTop(t) ==
    /\ pc[t] = "while"
    /\ IF _stop_event
       THEN /\ pc' = [pc EXCEPT ![t] = "finally"]
            /\ ending' = [ending EXCEPT ![t] = "stopped"]
            /\ UNCHANGED iter_cont
       ELSE /\ pc' = [pc EXCEPT ![t] = "fetch"]
            /\ iter_cont' = [iter_cont EXCEPT ![t] = continuation[t]]
            /\ UNCHANGED ending
    /\ UNCHANGED <<call, globals, video_id, continuation, chat_items, msg_idx,
                   timeout_ms, stop_pc, response, iter_error, last_save,
                   fault_seen, completed_ids, last_return>>

\* An except clause that backs off whether or not a stop is requested.
AlwaysBackoff(stop_set) == "backoff"

\* An except clause that ends the loop on any exception.
AlwaysBreak(stop_set) == "finally"

\* except Exception: if _stop_event.is_set(): break; ...; time.sleep(5)
OnException(stop_set) == IF stop_set THEN "finally" ELSE "backoff"

\* The exception handler of the loop, entered from position "fetch" or "save".
Handle(t, where) ==
    /\ pc' = [pc EXCEPT ![t] = OnException(_stop_event)]
    /\ ending' = [ending EXCEPT ![t] =
            IF OnException(_stop_event) = "finally" THEN "stopped" ELSE @]
    /\ iter_error' = [iter_error EXCEPT ![t] = where]

\* chat_items, next_cont, timeout_ms = fetch_chat_once(...);
\* continuation = next_cont.  With no chat item the for loop is empty and
\* the thread goes on to time.sleep.
FetchFrom(t, responses) ==
    /\ pc[t] = "fetch"
    /\ \E resp \in responses :
         /\ response' = [response EXCEPT ![t] = resp]
         /\ IF FetchRaises(resp)
            THEN /\ Handle(t, "fetch")
                 /\ UNCHANGED <<continuation, chat_items, msg_idx, timeout_ms>>
            ELSE LET r == fetch_chat_once(resp)
                 IN  /\ continuation' = [continuation EXCEPT ![t] = r.next_cont]
                     /\ chat_items' = [chat_items EXCEPT ![t] = r.chat_items]
                     /\ timeout_ms' = [timeout_ms EXCEPT ![t] = r.timeout_ms]
                     /\ msg_idx' = [msg_idx EXCEPT ![t] = 1]
                     /\ pc' = [pc EXCEPT ![t] =
                            IF r.chat_items = <<>> THEN "sleep" ELSE "save"]
                     /\ UNCHANGED <<ending, iter_error>>
    /\ UNCHANGED <<call, globals, video_id, stop_pc, iter_cont, last_save,
                   fault_seen, completed_ids, last_return>>

Fetch(t) == FetchFrom(t, Responses)

FetchStore(t) == FetchFrom(t, StoreResponses)

\* One pass of "for msg in chat_items": msg["video_id"] = video_id;
\* chat_store.save_comment(msg).  After the last message the thread goes on
\* to time.sleep(max(timeout_ms, 500) / 1000).
SaveMsg(t) ==
    /\ pc[t] = "save"
    /\ _db = "open"
    /\ \E sqlite \in SqliteOutcomes :
         LET msg == [chat_items[t][msg_idx[t]] EXCEPT !.video_id = video_id[t]]
             r == save_comment(comments, msg, sqlite)
             last == msg_idx[t] = Len(chat_items[t])
         IN  /\ comments' = r.rows
             /\ last_save' = [last_save EXCEPT ![t] =
                    [idx |-> msg_idx[t], outcome |-> r.outcome]]
             /\ fault_seen' = (fault_seen \/ r.outcome = "fault")
             /\ IF r.raised
                THEN /\ Handle(t, "save")
                     /\ UNCHANGED <<msg_idx, completed_ids>>
                ELSE /\ msg_idx' = [msg_idx EXCEPT ![t] = @ + 1]
                     /\ pc' = [pc EXCEPT ![t] = IF last THEN "sleep" ELSE "save"]
                     /\ completed_ids' =
                            IF last
                            THEN completed_ids \cup
                                 {chat_items[t][i].id : i \in 1..Len(chat_items[t])}
                            ELSE completed_ids
                     /\ UNCHANGED <<ending, iter_error>>
    /\ UNCHANGED <<call, _running_lock, _is_running, _stop_event, _db, video_id,
                   continuation, chat_items, timeout_ms, stop_pc, iter_cont,
                   response, last_return>>

\* The length of the sleep a thread is in.
SleepMs(t) ==
    IF pc[t] = "sleep" THEN Max(timeout_ms[t], SleepFloorMs)
    ELSE IF pc[t] = "backoff" THEN BackoffMs
    ELSE 0

\* The end of an iteration.  chat_items and timeout_ms keep their values
\* in the code, but every path assigns them before it reads them again:
\* they are cleared here together with the history of the iteration.
EndIteration(t) ==
    /\ pc' = [pc EXCEPT ![t] = "while"]
    /\ chat_items' = [chat_items EXCEPT ![t] = <<>>]
    /\ msg_idx' = [msg_idx EXCEPT ![t] = 0]
    /\ timeout_ms' = [timeout_ms EXCEPT ![t] = 0]
    /\ iter_cont' = [iter_cont EXCEPT ![t] = NoToken]
    /\ response' = [response EXCEPT ![t] = NoResponse]
    /\ iter_error' = [iter_error EXCEPT ![t] = "none"]
    /\ last_save' = [last_save EXCEPT ![t] = NoSave]
    /\ UNCHANGED <<call, globals, video_id, continuation, ending, stop_pc,
                   fault_seen, completed_ids, last_return>>

\* time.sleep(max(timeout_ms, 500) / 1000) returns.
WakeSleep(t) ==
    /\ pc[t] = "sleep"
    /\ EndIteration(t)

\* time.sleep(5) returns.
WakeBackoff(t) ==
    /\ pc[t] = "backoff"
    /\ EndIteration(t)

\* A finally clause that is skipped when the try block raised.
RunningAfterException(how) == how = "exception"

\* finally: _is_running = False
RunningAfterFinally(how) == FALSE

\* The finally clause; the call's frame is gone afterwards.
Finally(t) ==
    /\ pc[t] = "finally"
    /\ _is_running' = RunningAfterFinally(ending[t])
    /\ pc' = [pc EXCEPT ![t] = "idle"]
    /\ video_id' = [video_id EXCEPT ![t] = None]
    /\ continuation' = [continuation EXCEPT ![t] = NoToken]
    /\ chat_items' = [chat_items EXCEPT ![t] = <<>>]
    /\ msg_idx' = [msg_idx EXCEPT ![t] = 0]
    /\ timeout_ms' = [timeout_ms EXCEPT ![t] = 0]
    /\ ending' = [ending EXCEPT ![t] = "none"]
    /\ iter_cont' = [iter_cont EXCEPT ![t] = NoToken]
    /\ response' = [response EXCEPT ![t] = NoResponse]
    /\ iter_error' = [iter_error EXCEPT ![t] = "none"]
    /\ last_save' = [last_save EXCEPT ![t] = NoSave]
    /\ last_return' = ending[t]
    /\ UNCHANGED <<call, _running_lock, _stop_event, _db, comments, stop_pc,
                   fault_seen, completed_ids>>

(* ---------------------------- stop_live_chat -------------------------- *)

\* if not _is_running: return
StopNotRunning ==
    /\ stop_pc = "idle"
    /\ ~_is_running
    /\ UNCHANGED vars

\* (_is_running read as True) print("Setting stop flag...")
StopCheck ==
    /\ stop_pc = "idle"
    /\ _is_running
    /\ stop_pc' = "set"
    /\ UNCHANGED <<call, globals, pc, locals, history>>

\* _stop_event.set()
StopSet ==
    /\ stop_pc = "set"
    /\ _stop_event' = TRUE
    /\ stop_pc' = "idle"
    /\ UNCHANGED <<call, _running_lock, _is_running, _db, comments, pc, locals,
                   history>>

(* ------------------------- users of chat_store ------------------------ *)

\* init_chat_store(): connect, CREATE TABLE IF NOT EXISTS.
InitChatStore ==
    /\ _db' = "open"
    /\ call' = [op |-> "init_chat_store", arg |-> <<>>, result |-> <<>>]
    /\ UNCHANGED <<_running_lock, _is_running, _stop_event, comments, pc,
                   locals, stop_pc, history>>

\* close_chat_store()
CloseChatStore ==
    /\ _db = "open"
    /\ _db' = "None"
    /\ call' = [op |-> "close_chat_store", arg |-> <<>>, result |-> <<>>]
    /\ UNCHANGED <<_running_lock, _is_running, _stop_event, comments, pc,
                   locals, stop_pc, history>>

\* save_comment(msg) called by a user of the store:
\* if _db is None or not msg or "id" not in msg: return
CallSaveComment ==
    /\ \E msg \in StoredEvents, sqlite \in SqliteOutcomes :
         LET r == save_comment(comments, msg, sqlite)
         IN  /\ comments' = IF _db = "None" THEN comments ELSE r.rows
             /\ call' = [op |-> "save_comment", arg |-> msg.id,
                         result |-> IF _db = "None" THEN "no_store"
                                    ELSE r.outcome]
    /\ UNCHANGED <<_running_lock, _is_running, _stop_event, _db, pc, locals,
                   stop_pc, history>>

\* get_recent_comments(limit) called by a user of the store.
CallGetRecentComments ==
    /\ \E limit \in Limits, sqlite \in {"ok", "execute_error"} :
         call' = [op |-> "get_recent_comments",
                  arg |-> [limit |-> limit, sqlite |-> sqlite],
                  result |-> get_recent_comments(_db, comments, limit, sqlite)]
    /\ UNCHANGED <<globals, pc, locals, stop_pc, history>>

(* ----------------------- callers of fetch_chat_once ------------------- *)

\* The result of a fetch_chat_once call: pending, raised, or returned with
\* the tuple (chat_items, next_cont, timeout_ms).
FetchResult(status, items, next_cont, delay) ==
    [status |-> status, chat_items |-> items, next_cont |-> next_cont,
     timeout_ms |-> delay]

\* fetch_chat_once has posted its request and the platform has answered.
FetchCalls ==
    {[op |-> "fetch_chat_once", arg |-> resp,
      result |-> FetchResult("pending", <<>>, NoToken, 0)] :
        resp \in NormResponses}

\* fetch_chat_once normalizes the answer and returns, or raises.
FetchChatOnceReturns ==
    /\ call.op = "fetch_chat_once"
    /\ call.result.status = "pending"
    /\ call' = [call EXCEPT !.result =
            IF FetchRaises(call.arg)
            THEN FetchResult("raised", <<>>, NoToken, 0)
            ELSE LET r == fetch_chat_once(call.arg)
                 IN  FetchResult("returned", r.chat_items, r.next_cont,
                                 r.timeout_ms)]
    /\ UNCHANGED <<globals, pc, locals, stop_pc, history>>

(* --------------------- callers of parse_amount_to_int ----------------- *)

\* parse_amount_to_int has been called with a text.
AmountCalls ==
    {[op |-> "parse_amount_to_int", arg |-> text,
      result |-> [status |-> "pending", value |-> NoAmount]] :
        text \in AmountTexts}

\* parse_amount_to_int returns; no path of it raises (the ValueError of
\* int("") is caught and gives None).
ParseAmountReturns ==
    /\ call.op = "parse_amount_to_int"
    /\ call.result.status = "pending"
    /\ call' = [call EXCEPT !.result =
            [status |-> "returned", value |-> parse_amount_to_int(call.arg)]]
    /\ UNCHANGED <<globals, pc, locals, stop_pc, history>>

(* ---------------------------- specification --------------------------- *)

\* The steps of a run that has taken the guard.
RunStep(t) ==
    \/ ClearStop(t)
    \/ Bootstrap(t)
    \/ LoopTop(t)
    \/ Fetch(t)
    \/ SaveMsg(t)
    \/ WakeSleep(t)
    \/ WakeBackoff(t)
    \/ Finally(t)

Next ==
    \/ \E t \in Threads : StartRejected(t)
    \/ \E t \in Threads : StartAccepted(t)
    \/ \E t \in Threads : ClearStop(t)
    \/ \E t \in Threads : Bootstrap(t)
    \/ \E t \in Threads : LoopTop(t)
    \/ \E t \in Threads : Fetch(t)
    \/ \E t \in Threads : SaveMsg(t)
    \/ \E t \in Threads : WakeSleep(t)
    \/ \E t \in Threads : WakeBackoff(t)
    \/ \E t \in Threads : Finally(t)
    \/ StopNotRunning
    \/ StopCheck
    \/ StopSet

Spec == Init /\ [][Next]_vars

\* Every transport call and every sleep returns, and a running thread is
\* scheduled: each step of a run that is enabled is eventually taken, and
\* a stop_live_chat call that has read _is_running goes on to set the flag.
FairSpec ==
    /\ Spec
    /\ \A t \in Threads : WF_vars(RunStep(t))
    /\ WF_vars(StopSet)

\* One thread runs start_live_chat again and again and nobody calls
\* stop_live_chat; the platform sends the items of StoreItems.
StoreThread == "t1"

NextStore ==
    \/ StartAccepted(StoreThread)
    \/ ClearStop(StoreThread)
    \/ Bootstrap(StoreThread)
    \/ LoopTop(StoreThread)
    \/ FetchStore(StoreThread)
    \/ SaveMsg(StoreThread)
    \/ WakeSleep(StoreThread)
    \/ WakeBackoff(StoreThread)
    \/ Finally(StoreThread)

StoreSpec == Init /\ [][NextStore]_vars

\* The users of chat_store alone: the store is opened and closed, events
\* are saved in any order and the recent events are read.
NextRecent ==
    \/ InitChatStore
    \/ CloseChatStore
    \/ CallSaveComment
    \/ CallGetRecentComments

RecentSpec == Init /\ [][NextRecent]_vars

\* fetch_chat_once alone, on every answer of NormResponses.
NormInit == InitProgram /\ call \in FetchCalls

NextNorm == FetchChatOnceReturns

NormSpec == NormInit /\ [][NextNorm]_vars

\* parse_amount_to_int alone, on every text of AmountTexts.
AmountInit == InitProgram /\ call \in AmountCalls

NextAmount == ParseAmountReturns

AmountSpec == AmountInit /\ [][NextAmount]_vars

(* ------------------------------ properties ---------------------------- *)

\* The step in which an iteration of thread t raises.
IterationFails(t) == iter_error[t] = "none" /\ iter_error'[t] # "none"

\* The step in which a save_comment call of thread t ends.
SaveEnds(t) == last_save'[t] # last_save[t] /\ last_save'[t].outcome # "none"

UniqueIds(rows) ==
    \A i, j \in 1..Len(rows) : rows[i].id = rows[j].id => i = j

\* C1: when an iteration has raised and the loop is in its backoff, the
\* continuation token it holds for the retry is the one it held when that
\* iteration began.
C1_TokenKeptOnFailure ==
    \A t \in Threads : pc[t] = "backoff" => continuation[t] = iter_cont[t]

\* C2: no id is stored twice, and as long as no write met a storage fault
\* every id returned in an iteration that ended without error is stored.
C2_ExactlyOnce ==
    /\ UniqueIds(comments)
    /\ ~fault_seen => \A id \in completed_ids : HasId(comments, id)

\* Two ids are stored after iterations without error, and the platform has
\* just sent a stored id again.
C2_Witness ==
    /\ ~fault_seen
    /\ Cardinality(completed_ids) >= 2
    /\ Len(comments) >= 2
    /\ \E t \in Threads : last_save[t].outcome = "ignored"

\* C3 as stated: every failure of an iteration leads to the backoff.
C3_EveryFailureBacksOff ==
    [][\A t \in Threads : IterationFails(t) => pc'[t] = "backoff"]_vars

\* C3 as amended: a failure of an iteration while no stop request is
\* pending leads to the backoff and from there back to the top of the loop;
\* a failure while the stop flag is set ends the loop; the loop leaves
\* Polling only when the stop flag is set.
C3_FailureBacksOffUnlessStopped ==
    [][\A t \in Threads :
        /\ IterationFails(t) =>
              pc'[t] = (IF _stop_event THEN "finally" ELSE "backoff")
        /\ (pc[t] = "backoff" /\ pc'[t] # "backoff") => pc'[t] = "while"
        /\ (pc[t] \in PollingPcs /\ pc'[t] \notin PollingPcs) => _stop_event
      ]_vars

\* A non-success HTTP status has sent the loop into its backoff.
C3_Witness ==
    \E t \in Threads :
        /\ pc[t] = "backoff"
        /\ response[t].status = "http_error"
        /\ ~_stop_event

\* C4: at most one call is between taking the guard and the end of its
\* finally clause, and a thread that is idle while another call is there
\* stays idle.
C4_SingleInstance ==
    /\ [](Cardinality({t \in Threads : pc[t] \in ActivePcs}) <= 1)
    /\ [][\A t \in Threads :
            (pc[t] = "idle" /\ \E u \in Threads : pc[u] \in ActivePcs)
                => pc'[t] = "idle"]_vars

\* A start was rejected while another call is polling.
C4_Witness ==
    /\ last_return = "rejected"
    /\ \E t \in Threads : pc[t] \in PollingPcs

\* C5: after a run has ended, whether by a stop request, an unresolved
\* stream or an exception during bootstrap, the guard is released and any
\* thread's start is accepted.
C5_GuardReleased ==
    (\/ last_return \in {"stopped", "unresolved", "exception"}
     \/ \A t \in Threads : pc[t] = "idle")
        => /\ ~_is_running
           /\ _running_lock = NoThread
           /\ \A t \in Threads : ENABLED StartAccepted(t)

\* A run has ended by an exception during bootstrap.
C5_Witness == last_return = "exception" /\ ~_is_running

\* C6: once the stop flag is set, a thread that is not sleeping does not
\* start to sleep.
C6_NoSleepAfterStop ==
    [][\A t \in Threads :
        (_stop_event /\ pc[t] \notin {"sleep", "backoff"})
            => pc'[t] \notin {"sleep", "backoff"}]_vars

\* C7: when stop_live_chat has read _is_running as true while a run holds
\* it, that run ends.
C7_StopNeverLost == (stop_pc = "set" /\ _is_running) ~> ~_is_running

\* C8: a response with a well-formed envelope that holds a malformed item
\* of a known renderer does not make the iteration fail.
C8_MalformedItemSkipped ==
    \A t \in Threads :
        (/\ response[t].status = "ok"
         /\ response[t].has_contents
         /\ response[t].continuations # <<>>
         /\ AnyItemRaises(response[t].actions)
         /\ ~ContinuationRaises(response[t].continuations[1]))
            => iter_error[t] # "fetch"

\* C9: no two rows have the same id, a stored row never changes, and a
\* write that stores its event appends the row of that event: after two
\* saves of the same id the one row of that id is the first write.
C9_FirstWriteWins ==
    /\ [](UniqueIds(comments))
    /\ [][/\ \A i \in 1..Len(comments) :
               Len(comments') >= i /\ comments'[i] = comments[i]
          /\ \A t \in Threads :
               (SaveEnds(t) /\ last_save'[t].outcome = "inserted")
                   => comments' = Append(comments,
                          RowOf([chat_items[t][msg_idx[t]]
                                    EXCEPT !.video_id = video_id[t]]))
        ]_vars

\* An event was saved whose id is stored with another text.
C9_Witness ==
    \E t \in Threads :
        /\ last_save[t].outcome = "ignored"
        /\ \E i \in 1..Len(comments) :
              /\ comments[i].id = chat_items[t][last_save[t].idx].id
              /\ comments[i].text # chat_items[t][last_save[t].idx].text

\* The loop after a save_comment call that has returned: the next event of
\* the batch, or the sleep after the last, and no failure of the iteration.
LoopGoesOn(t) ==
    /\ iter_error'[t] = "none"
    /\ msg_idx'[t] = msg_idx[t] + 1
    /\ pc'[t] = (IF msg_idx[t] < Len(chat_items[t]) THEN "save" ELSE "sleep")

\* C10: a save_comment call that did not store its event, because the id
\* is a duplicate or because the write failed, returns to the loop, which
\* goes on to the next event of the batch, or to its sleep after the last,
\* without backoff.
C10_FailedWriteSwallowed ==
    [][\A t \in Threads :
        (SaveEnds(t) /\ last_save'[t].outcome # "inserted")
            => LoopGoesOn(t)]_vars

\* The part of C10 the code keeps: a duplicate id and a
\* sqlite3.DatabaseError do not surface.
C10_DatabaseErrorSwallowed ==
    [][\A t \in Threads :
        (SaveEnds(t) /\ last_save'[t].outcome \in {"ignored", "fault"})
            => LoopGoesOn(t)]_vars

\* The first write of a batch of two met a sqlite3.DatabaseError and the
\* second event is next.
C10_DatabaseErrorWitness ==
    \E t \in Threads :
        /\ last_save[t] = [idx |-> 1, outcome |-> "fault"]
        /\ pc[t] = "save"
        /\ msg_idx[t] = 2

\* C11: a call of get_recent_comments with a limit in 1..500 on an open
\* store that answers returns min(limit, N) different stored events, none of
\* the events left out is later than a returned one, and the returned
\* events are in non-decreasing order of timestamp_ms.
C11_RecentOldestFirst ==
    (/\ call.op = "get_recent_comments"
     /\ call.arg.limit \in 1..MaxLimit
     /\ call.arg.sqlite = "ok"
     /\ _db = "open")
        => LET res == call.result
               returned == {res[k].id : k \in 1..Len(res)}
           IN  /\ Len(res) = Min(call.arg.limit, Len(comments))
               /\ Cardinality(returned) = Len(res)
               /\ \A k \in 1..Len(res) :
                     \E i \in 1..Len(comments) : RowOf(res[k]) = comments[i]
               /\ \A k \in 1..Len(res), i \in 1..Len(comments) :
                     comments[i].id \notin returned
                         => comments[i].timestamp_ms <= res[k].timestamp_ms
               /\ \A k \in 1..(Len(res) - 1) :
                     res[k].timestamp_ms <= res[k + 1].timestamp_ms

\* Three events were saved with the latest first and the earliest last, and
\* the two most recent of them were read.
C11_Witness ==
    /\ call.op = "get_recent_comments"
    /\ call.arg = [limit |-> 2, sqlite |-> "ok"]
    /\ _db = "open"
    /\ Len(comments) = 3
    /\ comments[1].timestamp_ms > comments[2].timestamp_ms
    /\ comments[2].timestamp_ms > comments[3].timestamp_ms
    /\ Len(call.result) = 2

\* The part of C12 about order: the saves of a run are issued one at a
\* time, each for the next event of fetch_chat_once's list, and no fetch is
\* made while an event of the batch waits for its save.
SavesInOrder(t) ==
    SaveEnds(t) =>
        /\ pc[t] = "save"
        /\ \A u \in Threads \ {t} : pc[u] # "save"
        /\ last_save'[t].idx = last_save[t].idx + 1
        /\ last_save'[t].idx = msg_idx[t]
        /\ chat_items[t] = NormalizeFrom(response[t].actions, 1)

\* C12: after the saves of an iteration every event of the batch has been
\* handed to save_comment, and the saves were issued one at a time in the
\* order of the batch.
C12_OneSavePerEventInOrder ==
    /\ [](\A t \in Threads :
            (pc[t] # "save" /\ chat_items[t] # <<>>)
                => last_save[t].idx = Len(chat_items[t]))
    /\ [][\A t \in Threads : SavesInOrder(t)]_vars

\* The order of the saves alone, which the code keeps.
C12_SavesInOrder == [][\A t \in Threads : SavesInOrder(t)]_vars

\* The step in which thread t gets an envelope that is well formed but for
\* the wrapper key of continuations[0], which is none of the two known.
UnknownWrapperFetched(t) ==
    /\ pc[t] = "fetch"
    /\ response'[t].status = "ok"
    /\ response'[t].has_contents
    /\ response'[t].continuations # <<>>
    /\ response'[t].continuations[1].key \notin
           {"timedContinuationData", "invalidationContinuationData"}

\* After a fetch that succeeded the loop holds the wrapper's continuation
\* and its timeoutMs, 2000 when the wrapper has none.
WrapperExtracted ==
    \A t \in Threads :
        pc[t] \in {"save", "sleep"} =>
            LET cont0 == response[t].continuations[1]
            IN  /\ cont0.key \in
                      {"timedContinuationData", "invalidationContinuationData"}
                /\ continuation[t] = cont0.continuation
                /\ timeout_ms[t] =
                      (IF cont0.timeoutMs = <<>> THEN 2000 ELSE cont0.timeoutMs[1])

C14_BootstrapFailureIsFatal ==
    /\ [](\A t \in Threads :
            /\ pc[t] \in PollingPcs
                  => video_id[t] # None /\ continuation[t] # NoToken
            /\ ending[t] \in {"exception", "unresolved"} => pc[t] = "finally")
    /\ [][\A t \in Threads :
            /\ (pc[t] = "bootstrap" /\ pc'[t] # "bootstrap"
                    /\ continuation'[t] = NoToken)
                  => /\ pc'[t] = "finally"
                     /\ ending'[t] \in {"exception", "unresolved"}
                     /\ comments' = comments
            /\ (pc[t] = "finally" /\ pc'[t] # "finally")
                  => pc'[t] = "idle" /\ comments' = comments
            /\ (pc[t] # "bootstrap" /\ pc'[t] = "bootstrap")
                  => pc[t] = "clear"
       ]_vars

\* A run whose bootstrap raised is in its finally clause and holds no
\* continuation.
C14_Witness ==
    \E t \in Threads :
        /\ pc[t] = "finally"
        /\ ending[t] = "exception"
        /\ continuation[t] = NoToken
        /\ comments = <<>>

\* A fetch_chat_once call that has returned, and the events it returned.
Returned == call.op = "fetch_chat_once" /\ call.result.status = "returned"

Emitted == call.result.chat_items

PartTypes(event) == {event.parts[i].type : i \in 1..Len(event.parts)}

\* The items of the answer that carry one of the six renderers (and a
\* non-empty one), in their order: the k-th event is made of the k-th.
KnownItems ==
    SelectSeq(call.arg.actions,
              LAMBDA a : /\ a.key \in {TextKey, PaidKey, StickerKey,
                                       MembershipKey, GiftPurchaseKey,
                                       GiftRedeemKey}
                         /\ a.renderer # EmptyRenderer)

\* C15: of every event fetch_chat_once returns, a text, paid or membership
\* event has text and emoji parts only, a sticker event has exactly one part,
\* a sticker part, a gift_purchase event exactly one part, a text part with
\* the event's text, and a gift_redeem event the parts parsed of the item's
\* message, or without a message exactly one text part with the event's
\* text.
C15_PartsMatchKind ==
    Returned =>
        /\ Len(Emitted) = Len(KnownItems)
        /\ \A k \in 1..Len(Emitted) :
            LET event == Emitted[k]
            IN  /\ event.kind \in {"text", "paid", "membership", "sticker",
                                   "gift_purchase", "gift_redeem"}
                /\ event.kind \in {"text", "paid", "membership", "gift_redeem"}
                      => PartTypes(event) \subseteq {"text", "emoji"}
                /\ event.kind = "sticker"
                      => Len(event.parts) = 1 /\ PartTypes(event) = {"sticker"}
                /\ event.kind = "gift_purchase"
                      => /\ Len(event.parts) = 1
                         /\ PartTypes(event) = {"text"}
                         /\ event.parts[1].text = event.text
                /\ event.kind = "gift_redeem"
                      => IF KnownItems[k].renderer.message # <<>>
                         THEN event.parts =
                                parse_message_parts(KnownItems[k].renderer.message)
                         ELSE event.parts = <<TextPart(event.text)>>

\* A batch of a sticker and a gift redemption with a message was normalized.
C15_Witness ==
    /\ Returned
    /\ Len(Emitted) = 2
    /\ Emitted[1].kind = "sticker"
    /\ Emitted[2].kind = "gift_redeem"
    /\ Len(Emitted[2].parts) = 2

\* C16: an event fetch_chat_once returns has a colors object exactly when
\* its kind is paid or sticker; the events of the other four kinds have
\* colors None.
C16_ColorsOnlyForPaidAndSticker ==
    Returned =>
        \A k \in 1..Len(Emitted) :
            /\ Emitted[k].colors.present
                  <=> Emitted[k].kind \in {"paid", "sticker"}
            /\ Emitted[k].kind \in {"text", "membership", "gift_purchase",
                                    "gift_redeem"}
                  => Emitted[k].colors = NoColors

\* A batch of a paid message and a membership item was normalized; no
\* colour of the paid message's body background was given.
C16_Witness ==
    /\ Returned
    /\ Len(Emitted) = 2
    /\ Emitted[1].kind = "paid"
    /\ Emitted[1].colors.present
    /\ Emitted[1].colors.body_bg = None
    /\ Emitted[2].kind = "membership"
    /\ ~Emitted[2].colors.present

\* Whether the platform gave no author name for an item: no simpleText and
\* no text in runs of authorName, and no author in the gift header.
NoAuthorGiven(renderer) ==
    /\ renderer.authorName.simpleText = ""
    /\ \A i \in 1..Len(renderer.authorName.runs) :
          renderer.authorName.runs[i] = ""
    /\ renderer.giftHeader.authorName = <<>>

\* C17: every event fetch_chat_once returns has a non-empty author, and
\* the event of an item without author name has the author "Unknown".
C17_AuthorNeverEmpty ==
    Returned =>
        \A k \in 1..Len(Emitted) :
            /\ Emitted[k].author # ""
            /\ NoAuthorGiven(KnownItems[k].renderer)
                  => Emitted[k].author = "Unknown"

\* A gift purchase without any author and a gift purchase named by its
\* header were normalized.
C17_Witness ==
    /\ Returned
    /\ Len(Emitted) = 2
    /\ Emitted[1].kind = "gift_purchase"
    /\ NoAuthorGiven(KnownItems[1].renderer)
    /\ Emitted[1].author = "Unknown"
    /\ Emitted[2].kind = "gift_purchase"
    /\ Emitted[2].author = "bob"

\* An action whose item carries none of the six renderer keys, or that has
\* no addChatItemAction item at all.
Unrecognized(action) ==
    action.key \notin {TextKey, PaidKey, StickerKey, MembershipKey,
                       GiftPurchaseKey, GiftRedeemKey}

HasPlatformId(renderer) ==
    renderer.id # "" \/ renderer.messageId # "" \/ renderer.trackingParams # ""

\* The answer without the action at position p.
WithoutAction(resp, p) ==
    [resp EXCEPT !.actions =
        SubSeq(resp.actions, 1, p - 1)
            \o SubSeq(resp.actions, p + 1, Len(resp.actions))]

\* C18: for every unrecognized action of an answer, fetch_chat_once raises
\* on the answer exactly when it raises on the answer without that action,
\* and when it returns, it returns the same continuation, the same delay
\* and the same events in the same order as for the answer without that
\* action, the ids of events without platform id aside.
C18_UnknownItemSkipped ==
    (call.op = "fetch_chat_once" /\ call.result.status # "pending") =>
        \A p \in 1..Len(call.arg.actions) :
            Unrecognized(call.arg.actions[p]) =>
                LET rest == WithoutAction(call.arg, p)
                    other == fetch_chat_once(rest)
                    kept == SelectSeq(rest.actions, LAMBDA a : ~ItemSkipped(a))
                IN  /\ (call.result.status = "raised") <=> FetchRaises(rest)
                    /\ Returned =>
                          /\ call.result.next_cont = other.next_cont
                          /\ call.result.timeout_ms = other.timeout_ms
                          /\ Len(Emitted) = Len(other.chat_items)
                          /\ \A k \in 1..Len(Emitted) :
                                /\ [Emitted[k] EXCEPT !.id = ""]
                                      = [other.chat_items[k] EXCEPT !.id = ""]
                                /\ HasPlatformId(kept[k].renderer)
                                      => Emitted[k].id = other.chat_items[k].id

\* An item of an unknown renderer came before a text message without
\* platform id: the one event returned is the text message, with the
\* position 1 in its id.
C18_Witness ==
    /\ Returned
    /\ Len(call.arg.actions) = 2
    /\ call.arg.actions[1].key = "liveChatViewerEngagementMessageRenderer"
    /\ Len(Emitted) = 1
    /\ Emitted[1].text = "x_1"
    /\ Emitted[1].id = "0_a_x_1_1"

\* C20: any two events of one answer that are made of items without
\* platform id have different ids.
C20_SyntheticIdsDiffer ==
    Returned =>
        \A j, k \in 1..Len(Emitted) :
            (/\ j # k
             /\ ~HasPlatformId(KnownItems[j].renderer)
             /\ ~HasPlatformId(KnownItems[k].renderer))
                => Emitted[j].id # Emitted[k].id

\* Two text messages whose timestamp, author and text give the same
\* "0_a_x_1" came in one answer.
C20_Witness ==
    /\ Returned
    /\ Len(Emitted) = 2
    /\ Emitted[1].author = "a" /\ Emitted[1].text = "x_1"
    /\ Emitted[2].author = "a_x" /\ Emitted[2].text = "1"
    /\ Emitted[1].id = "0_a_x_1_0"
    /\ Emitted[2].id = "0_a_x_1_1"

\* The first maximal run of digits and commas of a text: the text from its
\* first digit or comma on, up to the first character that is neither.
RECURSIVE FromFirstRun(_)
FromFirstRun(text) ==
    IF text = <<>> \/ Head(text) \in Digits \cup {","} THEN text
    ELSE FromFirstRun(Tail(text))

RECURSIVE LeadingRun(_)
LeadingRun(text) ==
    IF text = <<>> \/ Head(text) \notin Digits \cup {","} THEN <<>>
    ELSE <<Head(text)>> \o LeadingRun(Tail(text))

FirstRunDigits(text) ==
    SelectSeq(LeadingRun(FromFirstRun(text)), LAMBDA c : c # ",")

\* C19: parse_amount_to_int returns for every text; it returns None when
\* the first run of digits and commas has no digit (or there is none), and
\* else the integer written by the digits of that run.
C19_AmountOfFirstRun ==
    (call.op = "parse_amount_to_int" /\ call.result.status # "pending") =>
        LET digits == FirstRunDigits(call.arg)
        IN  /\ call.result.status = "returned"
            /\ (call.result.value = NoAmount) <=> (digits = <<>>)
            /\ digits # <<>> =>
                  /\ IsNumeral(call.result.value)
                  /\ DigitsToNat(call.result.value) = DigitsToNat(digits)

\* "$1,234" was parsed to 1234.
C19_Witness ==
    /\ call.op = "parse_amount_to_int"
    /\ call.arg = <<"$", "1", ",", "2", "3", "4">>
    /\ call.result = [status |-> "returned", value |-> <<"1", "2", "3", "4">>]

\* C21: the step in which a start is rejected is taken while the running
\* flag is set and leaves it set, and it changes neither the stop flag nor
\* the lock, the store, or the position, continuation and other locals of
\* any thread.
C21_RejectedStartChangesNothing ==
    [][(last_return' = "rejected" /\ last_return # "rejected")
          => /\ _is_running /\ _is_running'
             /\ UNCHANGED <<_running_lock, _stop_event, _db, comments, pc,
                            locals, stop_pc>>]_vars

\* A start was rejected while the active run is polling with a continuation
\* and a stop request for it is pending.
C21_Witness ==
    /\ last_return = "rejected"
    /\ _is_running
    /\ _stop_event
    /\ \E t \in Threads :
          pc[t] \in {"fetch", "save", "sleep"} /\ continuation[t] # NoToken

\* A run of thread t is in Polling and the stop flag is set.
StopRequested(t) == _stop_event /\ pc[t] \in PollingPcs

\* The greatest number of steps a run that does not fetch again has before
\* it is out of the loop: at a fetch the fetch, a save per event, the sleep
\* and the test of the flag; fewer at the later positions.
StepsToEnd(position, events, next_event) ==
    CASE position = "fetch" -> MaxBatch + 3
      [] position = "save" -> (Len(events) - next_event) + 3
      [] position \in {"sleep", "backoff"} -> 2
      [] position = "while" -> 1
      [] OTHER -> 0

\* C22: while the stop flag is set for a run in Polling the flag stays set
\* and the run does not come to the fetch of a further iteration, so the
\* fetch it was about to make or was making when the flag was set is its
\* last; a failure of an iteration takes it out of the loop and not into
\* the backoff sleep; the run is never blocked, and each of its steps
\* brings it closer to the end of the loop.
C22_AtMostOneFetchAfterStop ==
    /\ [](\A t \in Threads : StopRequested(t) => ENABLED RunStep(t))
    /\ [][\A t \in Threads :
            StopRequested(t) =>
                /\ pc'[t] \in PollingPcs => _stop_event'
                /\ pc[t] # "fetch" => pc'[t] # "fetch"
                /\ IterationFails(t) => pc'[t] = "finally"
                /\ pc[t] # "backoff" => pc'[t] # "backoff"
                /\ (pc'[t] # pc[t] \/ msg_idx'[t] # msg_idx[t])
                      => StepsToEnd(pc'[t], chat_items'[t], msg_idx'[t])
                            < StepsToEnd(pc[t], chat_items[t], msg_idx[t])
       ]_vars

\* What follows of C22 when every transport call and sleep returns: the
\* run reaches the end of the loop.
C22_StopReachesEnd ==
    \A t \in Threads : StopRequested(t) ~> (pc[t] = "finally")

\* The stop flag was set while a fetch was under way, the fetch failed with
\* a non-success status, and the run has left the loop.
C22_Witness ==
    \E t \in Threads :
        /\ _stop_event
        /\ pc[t] = "finally"
        /\ ending[t] = "stopped"
        /\ iter_error[t] = "fetch"
        /\ response[t].status = "http_error"

====
